---- MODULE Spec2Model ----
(***************************************************************************)
(* A model of the RTSP-to-WebRTC relay: the WHEP signalling handlers       *)
(* (whep_offer, whep_delete, the connection-state callback) with the       *)
(* session registry they use, and the ingest pump (the RTSP read loop, the *)
(* two bounded channels and the two track-writer tasks).                   *)
(*                                                                         *)
(* Spec         the signalling handlers and the registry                   *)
(* SpecPump     the ingest pump                                            *)
(* SpecPumpFair the ingest pump on a short upstream, tasks scheduled       *)
(* SpecStartup  main() from the RTSP description to the first request      *)
(***************************************************************************)
EXTENDS Integers, Sequences, FiniteSets, TLC

\* ------------------------------------------------------------------ bounds

\* POST /whep requests the clients send.
MaxOffers == 2
\* Connection-state transitions the peer-connection stack reports, in total.
MaxStateChanges == 2

\* Streams in the description the RTSP server gives.
MaxStreams == 3

\* Packets of one kind the upstream sends beyond the channel capacity.
MaxOverflow == 2
\* Packets the two writer tasks take from their channels, in total.
MaxWrites == 3

\* ------------------------------------------------------- program constants

\* tokio::sync::mpsc::channel::<ReceivedPacket>(100)
ChannelCapacity == 100

CREATED == 201
NO_CONTENT == 204
BAD_REQUEST == 400
NOT_FOUND == 404
UNSUPPORTED_MEDIA_TYPE == 415
\* No response at all: the handler task panicked (an unwrap on Err, or a
\* slice past the end of the identifier).
Panicked == 0
\* No response yet.
NoStatus == -1

\* -------------------------------------------------------------- the state

VARIABLES
    streams,          \* session.streams(): the streams of the RTSP description
    main_pc,          \* where main() stands
    setup_calls,      \* the stream indices session.setup was called with, in order
    video_track,      \* AppState.video_track.0: the selected video stream index
    audio_track,      \* AppState.audio_track: <<>> (None) or <<index>> (Some)
    peer_connections, \* AppState.peer_connections held by the router: id -> connection
    offer_pc,         \* per POST request: where whep_offer stands
    offer_req,        \* per POST request: the request (content-type, body)
    offer_resp,       \* per POST request: the response (status, Location)
    offer_map,        \* per POST request: the handler's own AppState.peer_connections
    cb_map,           \* per connection: the map the state-change closure captured
    cb_registered,    \* per connection: on_peer_connection_state_change was called
    conn_state,       \* per connection: RTCPeerConnectionState, "none" before it exists
    close_calls,      \* per connection: how many times this program called close()
    drains,           \* per connection: the feedback-drain tasks still running
    closed_notify,    \* per connection: close() ran, its Closed notification is due
    teardown_seen,    \* per session: a terminal-state callback ran after it was created
    removed_by,       \* per session: who found its entry when removing it
    n_state_changes,  \* state transitions reported so far
    last_delete,      \* the last DELETE request and its outcome
    upstream,         \* the items the RTSP session has yet to yield
    ingest_pc,        \* the RTSP read loop: "running" or "done"
    ingest_last,      \* what the read loop did with the last item
    received,         \* per kind: the RTP packets the read loop got, in order
    rx,               \* video_rx / audio_rx: the packets buffered in each channel
    writer_pc,        \* per kind: where the writer task stands
    writer_cur,       \* per kind: the packet the writer task is writing
    taken,            \* per kind: packets the writer task has received so far
    written,          \* per kind: the packets written to the track, in order
    write_result      \* per kind: what the last track.write returned

sessionVars == <<peer_connections, offer_pc, offer_req, offer_resp, offer_map,
                 cb_map, cb_registered, conn_state, close_calls, drains,
                 closed_notify, teardown_seen, removed_by, n_state_changes, last_delete>>

startupVars == <<streams, main_pc, setup_calls>>

trackVars == <<video_track, audio_track>>

pumpVars == <<upstream, ingest_pc, ingest_last, received, rx, writer_pc, writer_cur,
              taken, written, write_result>>

vars == <<startupVars, trackVars, sessionVars, pumpVars>>

Offers == 1..MaxOffers

\* ------------------------------------------------------------ identifiers

\* uuid::Uuid::new_v4().to_string(): 36 characters, fresh for every request.
Uuid(r) == "00000000-0000-4000-8000-00000000000" \o ToString(r)

\* Identifiers a client may put in the DELETE path besides the issued ones.
UnknownIds == {"abc", "12345678"}

DeleteIds == {Uuid(r) : r \in Offers} \cup UnknownIds

\* &id[..8]: the slice panics when the identifier has fewer than 8 bytes.
SlicePanics(id) == Len(id) < 8

\* ---------------------------------------------------------------- DashMap

\* dashmap::DashMap::new()
DashMapNew == << >>

\* DashMap's Clone copies every shard: the copy holds the same entries and
\* shares nothing with the original afterwards.
DashMapClone(m) == m

\* DashMap::insert: the latest value wins.
DashMapInsert(m, k, v) == [x \in (DOMAIN m) \cup {k} |-> IF x = k THEN v ELSE m[x]]

\* DashMap::remove: Some((key, value)) and the entry gone, or None.
DashMapRemove(m, k) ==
    IF k \in DOMAIN m
    THEN [found |-> TRUE, value |-> m[k], map |-> [x \in (DOMAIN m) \ {k} |-> m[x]]]
    ELSE [found |-> FALSE, value |-> 0, map |-> m]

DashMapLen(m) == Cardinality(DOMAIN m)

\* ------------------------------------------------------- SDPOffer extractor

\* A header value is a sequence of tokens; ";" and " " are tokens of their own.
\* <<>> is the empty value, which is also what a missing or non-ASCII header
\* gives (unwrap_or_default).
ContentTypes == {
    << >>,
    <<"application/sdp">>,
    <<" ", "application/sdp", " ", ";", " ", "charset=utf-8">>,
    <<"text/plain">>,
    <<"text/plain", ";", "application/sdp">> }

Bodies == {"valid", "malformed", "oversize"}

\* ct.split(';').next(): the part before the first ';' (all of it without one).
RECURSIVE FirstSegment(_)
FirstSegment(s) ==
    IF s = << >> \/ Head(s) = ";" THEN << >> ELSE <<Head(s)>> \o FirstSegment(Tail(s))

RECURSIVE TrimStart(_)
TrimStart(s) == IF s # << >> /\ Head(s) = " " THEN TrimStart(Tail(s)) ELSE s

RECURSIVE TrimEnd(_)
TrimEnd(s) ==
    IF s # << >> /\ s[Len(s)] = " " THEN TrimEnd(SubSeq(s, 1, Len(s) - 1)) ELSE s

\* str::trim
Trim(s) == TrimEnd(TrimStart(s))

MediaType(ct) == Trim(FirstSegment(ct))

\* from_request reading and parsing the body before it looks at the content-type.
FromRequestBodyFirst(ct, body) ==
    IF body = "oversize" THEN BAD_REQUEST
    ELSE IF body = "malformed" THEN BAD_REQUEST
    ELSE IF MediaType(ct) # <<"application/sdp">> THEN UNSUPPORTED_MEDIA_TYPE
    ELSE NoStatus

\* SDPOffer::from_request: the status it rejects with, or NoStatus for Ok.
FromRequest(ct, body) ==
    IF MediaType(ct) # <<"application/sdp">> THEN UNSUPPORTED_MEDIA_TYPE
    ELSE IF body = "oversize" THEN BAD_REQUEST
    ELSE IF body = "malformed" THEN BAD_REQUEST
    ELSE NoStatus

\* ------------------------------------------------------ connection states

TerminalStates == {"disconnected", "failed", "closed"}

\* The transitions the peer-connection stack makes on its own; "closed" is
\* entered only through close().
NextConnStates(s) ==
    CASE s = "new" -> {"connecting"}
      [] s = "connecting" -> {"connected", "failed"}
      [] s = "connected" -> {"disconnected", "failed"}
      [] s = "disconnected" -> {"connected", "failed"}
      [] OTHER -> {}

NoReq == [ct |-> << >>, body |-> "none"]
NoResp == [status |-> NoStatus, content_type |-> "", location |-> << >>]
NoDelete == [id |-> "", status |-> NoStatus, found |-> FALSE, created |-> FALSE,
             live |-> FALSE]

\* AppState::new, then main() up to axum::serve: no session yet.
InitSessions ==
    /\ peer_connections = DashMapNew
    /\ offer_pc = [r \in Offers |-> "idle"]
    /\ offer_req = [r \in Offers |-> NoReq]
    /\ offer_resp = [r \in Offers |-> NoResp]
    /\ offer_map = [r \in Offers |-> DashMapNew]
    /\ cb_map = [r \in Offers |-> DashMapNew]
    /\ cb_registered = [r \in Offers |-> FALSE]
    /\ conn_state = [r \in Offers |-> "none"]
    /\ close_calls = [r \in Offers |-> 0]
    /\ drains = [r \in Offers |-> {}]
    /\ closed_notify = [r \in Offers |-> FALSE]
    /\ teardown_seen = [r \in Offers |-> FALSE]
    /\ removed_by = [r \in Offers |-> {}]
    /\ n_state_changes = 0
    /\ last_delete = NoDelete

\* -------------------------------------------------------- stream selection

\* const VIDEO_CODEC_PRIORITY / AUDIO_CODEC_PRIORITY: (name, priority) pairs,
\* a lower number is preferred.
VIDEO_CODEC_PRIORITY == <<<<"h265", 1>>, <<"h264", 2>>, <<"vp9", 3>>, <<"vp8", 4>>>>
AUDIO_CODEC_PRIORITY == <<<<"opus", 1>>, <<"pcmu", 2>>, <<"pcma", 3>>>>

\* unwrap_or(100)
UnlistedPriority == 100

\* priority_list.iter().any(|(name, _)| *name == encoding_name)
Listed(encoding_name, priority_list) ==
    \E i \in DOMAIN priority_list : priority_list[i][1] = encoding_name

\* get_codec_priority: the priority of the first pair with that name, or 100.
get_codec_priority(encoding_name, priority_list) ==
    LET hits == {i \in DOMAIN priority_list : priority_list[i][1] = encoding_name} IN
      IF hits = {} THEN UnlistedPriority
      ELSE priority_list[CHOOSE i \in hits : \A j \in hits : i <= j][2]

\* A stream of the description: its media, its encoding name and, when
\* parameters() is Some(ParametersRef::Video(v)), v.pixel_dimensions() as
\* <<width, height>>; << >> for any other parameters().
Stream(media, encoding_name, pixel_dimensions) ==
    [media |-> media, encoding_name |-> encoding_name,
     pixel_dimensions |-> pixel_dimensions]

\* The streams an RTSP server may describe: listed and unlisted encodings of
\* both kinds, equal and different resolutions, a video stream whose
\* dimensions are not known, one whose area does not fit 32 bits, and a stream
\* that is neither video nor audio under a listed encoding name.
Descriptors == {
    Stream("video", "h264", <<1920, 1080>>),
    Stream("video", "h265", <<1920, 1080>>),
    Stream("video", "h265", <<1280, 720>>),
    Stream("video", "h264", <<65536, 65536>>),
    Stream("video", "jpeg", <<3840, 2160>>),
    Stream("video", "vp8", << >>),
    Stream("audio", "opus", << >>),
    Stream("audio", "pcma", << >>),
    Stream("audio", "mpeg4-generic", << >>),
    Stream("application", "h264", << >>) }

Descriptions == UNION {[1..n -> Descriptors] : n \in 0..MaxStreams}

\* The i-th byte of a u32, the lowest being byte 0.
Byte(x, i) == (x \div (256 ^ i)) % 256

\* w * h on u32 operands, computed byte by byte: the low 32 bits of the
\* product as [hi, lo] (16 bits each), and whether the product needs more
\* than 32 bits.
MulU32(w, h) ==
    LET c0 == Byte(w, 0) * Byte(h, 0)
        c1 == Byte(w, 0) * Byte(h, 1) + Byte(w, 1) * Byte(h, 0) + (c0 \div 256)
        c2 == Byte(w, 0) * Byte(h, 2) + Byte(w, 1) * Byte(h, 1)
              + Byte(w, 2) * Byte(h, 0) + (c1 \div 256)
        c3 == Byte(w, 0) * Byte(h, 3) + Byte(w, 1) * Byte(h, 2)
              + Byte(w, 2) * Byte(h, 1) + Byte(w, 3) * Byte(h, 0) + (c2 \div 256)
        c4 == Byte(w, 1) * Byte(h, 3) + Byte(w, 2) * Byte(h, 2)
              + Byte(w, 3) * Byte(h, 1) + (c3 \div 256)
        c5 == Byte(w, 2) * Byte(h, 3) + Byte(w, 3) * Byte(h, 2) + (c4 \div 256)
        c6 == Byte(w, 3) * Byte(h, 3) + (c5 \div 256)
    IN
      [hi |-> (c3 % 256) * 256 + (c2 % 256),
       lo |-> (c1 % 256) * 256 + (c0 % 256),
       overflow |-> c4 # 0 \/ c5 # 0 \/ c6 # 0]

\* resolution_a / resolution_b of the video comparator: w * h, or 0 without
\* video parameters.
Resolution(stream) ==
    IF stream.pixel_dimensions = << >>
    THEN [hi |-> 0, lo |-> 0, overflow |-> FALSE]
    ELSE MulU32(stream.pixel_dimensions[1], stream.pixel_dimensions[2])

\* u32::cmp on two products: a < b.
U32Less(a, b) == a.hi < b.hi \/ (a.hi = b.hi /\ a.lo < b.lo)

\* The comparator of available_video_streams.sort_by says Less for (a, b):
\* the larger resolution first, then the lower codec priority.
VideoLess(a, b) ==
    \/ U32Less(Resolution(b.stream), Resolution(a.stream))
    \/ /\ Resolution(a.stream).hi = Resolution(b.stream).hi
       /\ Resolution(a.stream).lo = Resolution(b.stream).lo
       /\ get_codec_priority(a.stream.encoding_name, VIDEO_CODEC_PRIORITY)
          < get_codec_priority(b.stream.encoding_name, VIDEO_CODEC_PRIORITY)

\* An audio comparator that prefers the higher priority number.
AudioLessReversed(a, b) ==
    get_codec_priority(a.stream.encoding_name, AUDIO_CODEC_PRIORITY)
    > get_codec_priority(b.stream.encoding_name, AUDIO_CODEC_PRIORITY)

\* The comparator of available_audio_streams.sort_by: the lower priority first.
AudioLess(a, b) ==
    get_codec_priority(a.stream.encoding_name, AUDIO_CODEC_PRIORITY)
    < get_codec_priority(b.stream.encoding_name, AUDIO_CODEC_PRIORITY)

StreamLess(media, a, b) == IF media = "video" THEN VideoLess(a, b) ELSE AudioLess(a, b)

\* The streams of one media with their indices, whatever their encoding.
AvailableStreamsAnyEncoding(ss, media, priority_list) ==
    SelectSeq([i \in 1..Len(ss) |-> [index |-> i - 1, stream |-> ss[i]]],
              LAMBDA c : c.stream.media = media)

\* The streams with a listed encoding and their indices, whatever their media.
AvailableStreamsAnyMedia(ss, media, priority_list) ==
    SelectSeq([i \in 1..Len(ss) |-> [index |-> i - 1, stream |-> ss[i]]],
              LAMBDA c : Listed(c.stream.encoding_name, priority_list))

\* The loop over session.streams().iter().enumerate(): the (index, stream)
\* pairs of one media whose encoding is in the media's priority list, in the
\* order of the description. Indices count from 0.
AvailableStreams(ss, media, priority_list) ==
    SelectSeq([i \in 1..Len(ss) |-> [index |-> i - 1, stream |-> ss[i]]],
              LAMBDA c : /\ c.stream.media = media
                         /\ Listed(c.stream.encoding_name, priority_list))

\* slice::sort_by is stable: x goes before the first element it is Less than.
RECURSIVE InsertSorted(_, _, _)
InsertSorted(media, x, s) ==
    IF s = << >> THEN <<x>>
    ELSE IF StreamLess(media, x, Head(s)) THEN <<x>> \o s
    ELSE <<Head(s)>> \o InsertSorted(media, x, Tail(s))

RECURSIVE SortBy(_, _)
SortBy(media, s) ==
    IF s = << >> THEN << >>
    ELSE InsertSorted(media, s[Len(s)], SortBy(media, SubSeq(s, 1, Len(s) - 1)))

\* The video comparator multiplies with overflow: it runs on every candidate
\* once there are two of them, and not at all on a single one.
SortOverflows(available_video_streams) ==
    /\ Len(available_video_streams) >= 2
    /\ \E i \in DOMAIN available_video_streams :
          Resolution(available_video_streams[i].stream).overflow

\* video_track is not bound yet.
NoIndex == -1

\* Stream indices of the upstream description: the selected video stream, the
\* audio stream (selected or not) and one that is never selected.
VideoIndex == 0
AudioIndex == 1
OtherIndex == 2

\* The stream selection left a video track and perhaps an audio track.
InitTracks ==
    /\ video_track = VideoIndex
    /\ audio_track \in {<< >>, <<AudioIndex>>}

\* main() at axum::serve: the description had a video stream, an audio stream
\* (with a listed encoding or not) and a metadata stream; the selected streams
\* were set up.
InitMain ==
    /\ streams = <<Stream("video", "h264", <<1920, 1080>>),
                   Stream("audio", IF audio_track = << >> THEN "mpeg4-generic" ELSE "opus",
                          << >>),
                   Stream("application", "vnd.onvif.metadata", << >>)>>
    /\ main_pc = "serving"
    /\ setup_calls = <<video_track>> \o audio_track

\* --------------------------------------------------------- the ingest pump

Kinds == {"video", "audio"}

\* PacketItem::Rtp(rtp) with rtp.stream_id() = i, the n-th item of the stream;
\* the other items carry no packet.
Rtp(i, n) == [item |-> "rtp", stream_id |-> i, seq |-> n]
NonRtp(what, n) == [item |-> what, stream_id |-> OtherIndex, seq |-> n]

BurstLen == ChannelCapacity + MaxOverflow

\* What the RTSP session yields, first to last.
\* A burst of video, then a burst of audio, then one of each other item.
ScriptBursts ==
    [n \in 1..(2 * BurstLen + 4) |->
        IF n <= BurstLen THEN Rtp(VideoIndex, n)
        ELSE IF n <= 2 * BurstLen THEN Rtp(AudioIndex, n)
        ELSE IF n = 2 * BurstLen + 1 THEN NonRtp("rtcp", n)
        ELSE IF n = 2 * BurstLen + 2 THEN Rtp(OtherIndex, n)
        ELSE IF n = 2 * BurstLen + 3 THEN NonRtp("other", n)
        ELSE NonRtp("error", n)]

\* Video and audio alternating.
ScriptAlternating ==
    [n \in 1..(2 * BurstLen) |->
        IF n % 2 = 1 THEN Rtp(VideoIndex, n) ELSE Rtp(AudioIndex, n)]

\* One item of every sort.
ScriptMixed ==
    <<NonRtp("rtcp", 1), Rtp(VideoIndex, 2), Rtp(OtherIndex, 3), Rtp(AudioIndex, 4),
      NonRtp("error", 5), NonRtp("other", 6)>>

Scripts == {ScriptBursts, ScriptAlternating, ScriptMixed}

\* As many video packets as the writer tasks take, and nothing else.
ScriptShort == [n \in 1..MaxWrites |-> Rtp(VideoIndex, n)]

\* The streams short enough for the writer tasks to take every packet.
ShortScripts == {ScriptMixed, ScriptShort}

NoItem == [item |-> "none", stream_id |-> OtherIndex, seq |-> 0]
NoOutcome == [of |-> NoItem, outcome |-> "none"]

\* The spawned pump task right after it created the two channels and spawned
\* the writer tasks: video always, audio only with an audio track.
InitPump ==
    /\ ingest_pc = "running"
    /\ ingest_last = NoOutcome
    /\ received = [k \in Kinds |-> << >>]
    /\ rx = [k \in Kinds |-> << >>]
    /\ writer_pc = [k \in Kinds |->
           IF k = "audio" /\ audio_track = << >> THEN "absent" ELSE "recv"]
    /\ writer_cur = [k \in Kinds |-> NoItem]
    /\ taken = [k \in Kinds |-> 0]
    /\ written = [k \in Kinds |-> << >>]
    /\ write_result = [k \in Kinds |-> "none"]

\* The server as it starts to accept requests. Spec follows the requests and
\* the connections and leaves the upstream silent.
Init == InitTracks /\ InitMain /\ InitSessions /\ InitPump /\ upstream = << >>

\* The pump task as it starts to read the upstream. SpecPump follows the
\* read loop and the writer tasks and leaves the signalling aside.
InitWithUpstream ==
    InitTracks /\ InitMain /\ InitSessions /\ InitPump /\ upstream \in Scripts

\* The pump task as it starts to read a short upstream.
InitWithShortUpstream ==
    InitTracks /\ InitMain /\ InitSessions /\ InitPump /\ upstream \in ShortScripts

\* The receiver half of the channel of kind k is alive: the writer task that
\* owns it has not ended (without an audio track audio_rx stays in the pump
\* task).
ReceiverAlive(k) == writer_pc[k] # "done"

\* tx.send(rtp).await in place of try_send: the loop waits for room.
SendAwait(k, rtp) ==
    /\ ReceiverAlive(k) => Len(rx[k]) < ChannelCapacity
    /\ rx' = [rx EXCEPT ![k] = IF ReceiverAlive(k) THEN Append(@, rtp) ELSE @]
    /\ ingest_last' = [of |-> rtp,
                       outcome |-> IF ReceiverAlive(k) THEN k \o "_sent"
                                   ELSE k \o "_dropped"]

\* A full channel that makes room by discarding its oldest packet.
TrySendEvictOldest(k, rtp) ==
    LET full == Len(rx[k]) >= ChannelCapacity IN
      /\ rx' = [rx EXCEPT ![k] =
             IF ~ReceiverAlive(k) THEN @
             ELSE IF full THEN Append(Tail(@), rtp) ELSE Append(@, rtp)]
      /\ ingest_last' = [of |-> rtp,
                         outcome |-> IF ReceiverAlive(k) /\ ~full THEN k \o "_sent"
                                     ELSE k \o "_dropped"]

\* A try_send that succeeds only while the receivers of both channels are alive.
TrySendWhileAllAlive(k, rtp) ==
    LET ok == /\ \A o \in Kinds : ReceiverAlive(o)
              /\ Len(rx[k]) < ChannelCapacity
    IN
      /\ rx' = [rx EXCEPT ![k] = IF ok THEN Append(@, rtp) ELSE @]
      /\ ingest_last' = [of |-> rtp,
                         outcome |-> IF ok THEN k \o "_sent" ELSE k \o "_dropped"]

\* video_tx.try_send(rtp) / audio_tx.try_send(rtp): the packet is buffered when
\* the channel has room and its receiver is alive; otherwise try_send returns
\* Err at once and the loop logs the drop.
TrySend(k, rtp) ==
    LET ok == ReceiverAlive(k) /\ Len(rx[k]) < ChannelCapacity IN
      /\ rx' = [rx EXCEPT ![k] = IF ok THEN Append(@, rtp) ELSE @]
      /\ ingest_last' = [of |-> rtp,
                         outcome |-> IF ok THEN k \o "_sent" ELSE k \o "_dropped"]

\* A read loop that sends the packets of unknown streams to the video channel.
IngestRtpUnknownToVideo ==
    /\ ingest_pc = "running"
    /\ upstream # << >>
    /\ Head(upstream).item = "rtp"
    /\ LET rtp == Head(upstream)
           stream_id == rtp.stream_id
       IN
         IF audio_track # << >> /\ stream_id = audio_track[1] /\ stream_id # video_track
         THEN /\ TrySend("audio", rtp)
              /\ received' = [received EXCEPT !["audio"] = Append(@, rtp)]
         ELSE /\ TrySend("video", rtp)
              /\ received' = [received EXCEPT !["video"] = Append(@, rtp)]
    /\ upstream' = Tail(upstream)
    /\ UNCHANGED <<startupVars, trackVars, sessionVars, ingest_pc, writer_pc,
                   writer_cur, taken, written, write_result>>

\* session.next() yields Ok(PacketItem::Rtp(rtp)): the packet goes to the
\* channel of its stream, or is logged as unknown.
IngestRtp ==
    /\ ingest_pc = "running"
    /\ upstream # << >>
    /\ Head(upstream).item = "rtp"
    /\ LET rtp == Head(upstream)
           stream_id == rtp.stream_id
       IN
         IF stream_id = video_track
         THEN /\ TrySend("video", rtp)
              /\ received' = [received EXCEPT !["video"] = Append(@, rtp)]
         ELSE IF audio_track # << >> /\ stream_id = audio_track[1]
         THEN /\ TrySend("audio", rtp)
              /\ received' = [received EXCEPT !["audio"] = Append(@, rtp)]
         ELSE /\ ingest_last' = [of |-> rtp, outcome |-> "unknown_stream"]
              /\ UNCHANGED <<rx, received>>
    /\ upstream' = Tail(upstream)
    /\ UNCHANGED <<startupVars, trackVars, sessionVars, ingest_pc, writer_pc,
                   writer_cur, taken, written, write_result>>

\* session.next() yields Rtcp, another item or Err: logged, nothing else.
IngestOther ==
    /\ ingest_pc = "running"
    /\ upstream # << >>
    /\ Head(upstream).item # "rtp"
    /\ ingest_last' = [of |-> Head(upstream), outcome |-> Head(upstream).item]
    /\ upstream' = Tail(upstream)
    /\ UNCHANGED <<startupVars, trackVars, sessionVars, ingest_pc, received, rx,
                   writer_pc, writer_cur, taken, written, write_result>>

\* session.next() yields None: the loop and the pump task end, video_tx and
\* audio_tx are dropped.
IngestEnd ==
    /\ ingest_pc = "running"
    /\ upstream = << >>
    /\ ingest_pc' = "done"
    /\ UNCHANGED <<startupVars, trackVars, sessionVars, upstream, ingest_last, received,
                   rx, writer_pc, writer_cur, taken, written, write_result>>

\* The writer task takes the newest packet of its channel instead of the oldest.
WriterRecvNewest(k) ==
    /\ writer_pc[k] = "recv"
    /\ rx[k] # << >>
    /\ taken["video"] + taken["audio"] < MaxWrites
    /\ writer_cur' = [writer_cur EXCEPT ![k] = rx[k][Len(rx[k])]]
    /\ rx' = [rx EXCEPT ![k] = SubSeq(@, 1, Len(@) - 1)]
    /\ taken' = [taken EXCEPT ![k] = @ + 1]
    /\ writer_pc' = [writer_pc EXCEPT ![k] = "write"]
    /\ UNCHANGED <<startupVars, trackVars, sessionVars, upstream, ingest_pc,
                   ingest_last, received, written, write_result>>

\* video_rx.recv().await / audio_rx.recv().await returns Some(rtp); the writer
\* calls track.write(rtp.raw()).
WriterRecv(k) ==
    /\ writer_pc[k] = "recv"
    /\ rx[k] # << >>
    /\ taken["video"] + taken["audio"] < MaxWrites
    /\ writer_cur' = [writer_cur EXCEPT ![k] = Head(rx[k])]
    /\ rx' = [rx EXCEPT ![k] = Tail(@)]
    /\ taken' = [taken EXCEPT ![k] = @ + 1]
    /\ writer_pc' = [writer_pc EXCEPT ![k] = "write"]
    /\ UNCHANGED <<startupVars, trackVars, sessionVars, upstream, ingest_pc,
                   ingest_last, received, written, write_result>>

WriteResults == {"ok", "closed_pipe", "other_error"}

\* A writer task that ends on any write error.
WriterWriteStopsOnAnyError(k) ==
    /\ writer_pc[k] = "write"
    /\ \E res \in WriteResults :
         /\ written' = [written EXCEPT ![k] =
                IF res = "ok" THEN Append(@, writer_cur[k]) ELSE @]
         /\ writer_pc' = [writer_pc EXCEPT ![k] = IF res = "ok" THEN "recv" ELSE "done"]
         /\ rx' = [rx EXCEPT ![k] = IF res = "ok" THEN @ ELSE << >>]
         /\ write_result' = [write_result EXCEPT ![k] = res]
    /\ writer_cur' = [writer_cur EXCEPT ![k] = NoItem]
    /\ UNCHANGED <<startupVars, trackVars, sessionVars, upstream, ingest_pc,
                   ingest_last, received, taken>>

\* track.write(..).await returns. Ok: next packet. Err(ErrClosedPipe): break,
\* the task ends and drops its receiver with whatever is buffered. Any other
\* Err: logged, next packet.
WriterWrite(k) ==
    /\ writer_pc[k] = "write"
    /\ \E res \in WriteResults :
         /\ written' = [written EXCEPT ![k] =
                IF res = "ok" THEN Append(@, writer_cur[k]) ELSE @]
         /\ writer_pc' = [writer_pc EXCEPT ![k] =
                IF res = "closed_pipe" THEN "done" ELSE "recv"]
         /\ rx' = [rx EXCEPT ![k] = IF res = "closed_pipe" THEN << >> ELSE @]
         /\ write_result' = [write_result EXCEPT ![k] = res]
    /\ writer_cur' = [writer_cur EXCEPT ![k] = NoItem]
    /\ UNCHANGED <<startupVars, trackVars, sessionVars, upstream, ingest_pc,
                   ingest_last, received, taken>>

\* A recv() that returns None as soon as the sender is dropped, whatever the
\* channel still holds.
WriterRecvNoneEarly(k) ==
    /\ writer_pc[k] = "recv"
    /\ ingest_pc = "done"
    /\ writer_pc' = [writer_pc EXCEPT ![k] = "done"]
    /\ UNCHANGED <<startupVars, trackVars, sessionVars, upstream, ingest_pc, ingest_last,
                   received, rx, writer_cur, taken, written, write_result>>

\* recv() returns None: the channel is empty and its sender was dropped. The
\* while-let loop and the writer task end.
WriterRecvNone(k) ==
    /\ writer_pc[k] = "recv"
    /\ rx[k] = << >>
    /\ ingest_pc = "done"
    /\ writer_pc' = [writer_pc EXCEPT ![k] = "done"]
    /\ UNCHANGED <<startupVars, trackVars, sessionVars, upstream, ingest_pc,
                   ingest_last, received, rx, writer_cur, taken, written, write_result>>

\* ------------------------------------------------------------------ main

\* main() has the description of the RTSP session; nothing is selected, set up
\* or spawned yet.
InitStartup ==
    /\ streams \in Descriptions
    /\ main_pc = "described"
    /\ setup_calls = << >>
    /\ video_track = NoIndex
    /\ audio_track = << >>
    /\ InitSessions
    /\ upstream = << >>
    /\ ingest_pc = "unspawned"
    /\ ingest_last = NoOutcome
    /\ received = [k \in Kinds |-> << >>]
    /\ rx = [k \in Kinds |-> << >>]
    /\ writer_pc = [k \in Kinds |-> "absent"]
    /\ writer_cur = [k \in Kinds |-> NoItem]
    /\ taken = [k \in Kinds |-> 0]
    /\ written = [k \in Kinds |-> << >>]
    /\ write_result = [k \in Kinds |-> "none"]

\* The block that binds (video_track, audio_track): filter the streams, return
\* from main without a listed video stream, sort both lists and take the first
\* of each. The multiplication w * h panics on overflow in a build with
\* overflow checks and wraps in a build without.
SelectStreams ==
    /\ main_pc = "described"
    /\ LET available_video_streams ==
               AvailableStreams(streams, "video", VIDEO_CODEC_PRIORITY)
           available_audio_streams ==
               AvailableStreams(streams, "audio", AUDIO_CODEC_PRIORITY)
       IN
         IF available_video_streams = << >>
         THEN main_pc' = "exited" /\ UNCHANGED trackVars
         ELSE \E overflow_checks \in BOOLEAN :
                IF overflow_checks /\ SortOverflows(available_video_streams)
                THEN main_pc' = "panicked" /\ UNCHANGED trackVars
                ELSE /\ main_pc' = "selected"
                     /\ video_track' = SortBy("video", available_video_streams)[1].index
                     /\ audio_track' =
                            IF available_audio_streams = << >> THEN << >>
                            ELSE <<SortBy("audio", available_audio_streams)[1].index>>
    /\ UNCHANGED <<streams, setup_calls, sessionVars, pumpVars>>

\* session.setup(video_track.0, ..).await.unwrap()
SetupVideo ==
    /\ main_pc = "selected"
    /\ \E ok \in BOOLEAN :
         IF ok
         THEN /\ setup_calls' = Append(setup_calls, video_track)
              /\ main_pc' = IF audio_track # << >> THEN "video_setup" ELSE "setup_done"
         ELSE /\ main_pc' = "panicked"
              /\ UNCHANGED setup_calls
    /\ UNCHANGED <<streams, trackVars, sessionVars, pumpVars>>

\* if let Some(audio_stream) = audio_track.as_ref():
\* session.setup(audio_stream.0, ..).await.unwrap()
SetupAudio ==
    /\ main_pc = "video_setup"
    /\ \E ok \in BOOLEAN :
         IF ok
         THEN /\ setup_calls' = Append(setup_calls, audio_track[1])
              /\ main_pc' = "setup_done"
         ELSE /\ main_pc' = "panicked"
              /\ UNCHANGED setup_calls
    /\ UNCHANGED <<streams, trackVars, sessionVars, pumpVars>>

\* The API object is built and session.play(..).await.unwrap() starts the
\* stream.
Play ==
    /\ main_pc = "setup_done"
    /\ \E ok \in BOOLEAN : main_pc' = IF ok THEN "playing" ELSE "panicked"
    /\ UNCHANGED <<streams, setup_calls, trackVars, sessionVars, pumpVars>>

\* AppState::new and tokio::spawn of the pump task, which creates the channels
\* and spawns the video writer and, with an audio track, the audio writer.
SpawnPump ==
    /\ main_pc = "playing"
    /\ main_pc' = "spawned"
    /\ ingest_pc' = "running"
    /\ writer_pc' = [k \in Kinds |->
           IF k = "audio" /\ audio_track = << >> THEN "absent" ELSE "recv"]
    /\ UNCHANGED <<streams, setup_calls, trackVars, sessionVars, upstream, ingest_last,
                   received, rx, writer_cur, taken, written, write_result>>

\* The router is built, TcpListener::bind(..).await.unwrap() and axum::serve:
\* requests are accepted from here on. When bind fails main panics and the
\* runtime stops its tasks.
Serve ==
    /\ main_pc = "spawned"
    /\ \E ok \in BOOLEAN :
         IF ok
         THEN main_pc' = "serving" /\ UNCHANGED <<ingest_pc, writer_pc>>
         ELSE /\ main_pc' = "panicked"
              /\ ingest_pc' = "done"
              /\ writer_pc' = [k \in Kinds |->
                     IF writer_pc[k] = "absent" THEN "absent" ELSE "done"]
    /\ UNCHANGED <<streams, setup_calls, trackVars, sessionVars, upstream, ingest_last,
                   received, rx, writer_cur, taken, written, write_result>>

\* ------------------------------------------------------------- whep_offer

\* A POST /whep request arrives at the router. Requests are numbered in the
\* order their extractors run.
PostOffer(r) ==
    /\ main_pc = "serving"
    /\ offer_pc[r] = "idle"
    /\ \A q \in Offers : q < r => offer_pc[q] \notin {"idle", "received"}
    /\ \E ct \in ContentTypes, body \in Bodies :
         offer_req' = [offer_req EXCEPT ![r] = [ct |-> ct, body |-> body]]
    /\ offer_pc' = [offer_pc EXCEPT ![r] = "received"]
    /\ UNCHANGED <<startupVars, trackVars, pumpVars, peer_connections, offer_resp,
                   offer_map, cb_map, cb_registered, conn_state, close_calls, drains,
                   closed_notify, teardown_seen, removed_by, n_state_changes,
                   last_delete>>

\* The extractors run. State clones the router's AppState for the handler
\* (FromRef for a Clone state), then SDPOffer's from_request consumes the
\* request and accepts or rejects it; on Ok whep_offer starts and awaits
\* new_peer_connection.
OfferExtract(r) ==
    /\ offer_pc[r] = "received"
    /\ LET st == FromRequest(offer_req[r].ct, offer_req[r].body) IN
         IF st = NoStatus
         THEN /\ offer_pc' = [offer_pc EXCEPT ![r] = "extracted"]
              /\ offer_map' = [offer_map EXCEPT ![r] = DashMapClone(peer_connections)]
              /\ UNCHANGED offer_resp
         ELSE /\ offer_pc' = [offer_pc EXCEPT ![r] = "rejected"]
              /\ offer_resp' = [offer_resp EXCEPT ![r] =
                     [status |-> st, content_type |-> "", location |-> << >>]]
              /\ UNCHANGED offer_map
    /\ offer_req' = [offer_req EXCEPT ![r] = NoReq]
    /\ UNCHANGED <<startupVars, trackVars, pumpVars, peer_connections, cb_map,
                   cb_registered, conn_state, close_calls, drains, closed_notify,
                   teardown_seen, removed_by, n_state_changes, last_delete>>

\* An .await.unwrap() of whep_offer got Err: the handler task panics, its
\* locals are dropped and the client gets no response.
OfferPanic(r) ==
    /\ offer_pc' = [offer_pc EXCEPT ![r] = "panicked"]
    /\ offer_resp' = [offer_resp EXCEPT ![r] =
           [status |-> Panicked, content_type |-> "", location |-> << >>]]

\* api.new_peer_connection(..).await.unwrap(); then add_track(video) is awaited.
NewPeerConnection(r) ==
    /\ offer_pc[r] = "extracted"
    /\ \E ok \in BOOLEAN :
         IF ok
         THEN /\ offer_pc' = [offer_pc EXCEPT ![r] = "created"]
              /\ conn_state' = [conn_state EXCEPT ![r] = "new"]
              /\ UNCHANGED offer_resp
         ELSE /\ OfferPanic(r)
              /\ UNCHANGED conn_state
    /\ UNCHANGED <<startupVars, trackVars, pumpVars, peer_connections, offer_req,
                   offer_map, cb_map, cb_registered, close_calls, drains, closed_notify,
                   teardown_seen, removed_by, n_state_changes, last_delete>>

\* let id = Uuid::new_v4(); pc.on_peer_connection_state_change(..): the closure
\* takes peer_connections.clone(), a copy of the handler's map as it is now,
\* before the insert. Then set_remote_description is awaited.
RegisterHandler(r) ==
    /\ cb_map' = [cb_map EXCEPT ![r] = DashMapClone(offer_map[r])]
    /\ cb_registered' = [cb_registered EXCEPT ![r] = TRUE]

\* pc.add_track(video_track).await.unwrap(), and the drain task of its sender is
\* spawned. With an audio track add_track(audio) is awaited next; without one
\* the handler goes on to register the state-change handler.
AddVideoTrack(r) ==
    /\ offer_pc[r] = "created"
    /\ \E ok \in BOOLEAN :
         IF ok
         THEN /\ drains' = [drains EXCEPT ![r] = @ \cup {"video"}]
              /\ IF audio_track # << >>
                 THEN /\ offer_pc' = [offer_pc EXCEPT ![r] = "video_added"]
                      /\ UNCHANGED <<cb_map, cb_registered>>
                 ELSE /\ offer_pc' = [offer_pc EXCEPT ![r] = "registered"]
                      /\ RegisterHandler(r)
              /\ UNCHANGED offer_resp
         ELSE /\ OfferPanic(r)
              /\ UNCHANGED <<drains, cb_map, cb_registered>>
    /\ UNCHANGED <<startupVars, trackVars, pumpVars, peer_connections, offer_req,
                   offer_map, conn_state, close_calls, closed_notify, teardown_seen,
                   removed_by, n_state_changes, last_delete>>

\* pc.add_track(audio_track).await.unwrap(), its drain task is spawned, and the
\* state-change handler is registered.
AddAudioTrack(r) ==
    /\ offer_pc[r] = "video_added"
    /\ \E ok \in BOOLEAN :
         IF ok
         THEN /\ drains' = [drains EXCEPT ![r] = @ \cup {"audio"}]
              /\ offer_pc' = [offer_pc EXCEPT ![r] = "registered"]
              /\ RegisterHandler(r)
              /\ UNCHANGED offer_resp
         ELSE /\ OfferPanic(r)
              /\ UNCHANGED <<drains, cb_map, cb_registered>>
    /\ UNCHANGED <<startupVars, trackVars, pumpVars, peer_connections, offer_req,
                   offer_map, conn_state, close_calls, closed_notify, teardown_seen,
                   removed_by, n_state_changes, last_delete>>

\* pc.set_remote_description(offer).await.unwrap(); create_answer is awaited next.
SetRemoteDescription(r) ==
    /\ offer_pc[r] = "registered"
    /\ \E ok \in BOOLEAN :
         IF ok
         THEN offer_pc' = [offer_pc EXCEPT ![r] = "remote_set"] /\ UNCHANGED offer_resp
         ELSE OfferPanic(r)
    /\ UNCHANGED <<startupVars, trackVars, pumpVars, peer_connections, offer_req,
                   offer_map, cb_map, cb_registered, conn_state, close_calls, drains,
                   closed_notify, teardown_seen, removed_by, n_state_changes,
                   last_delete>>

\* pc.create_answer(None).await.unwrap(); set_local_description is awaited next.
CreateAnswer(r) ==
    /\ offer_pc[r] = "remote_set"
    /\ \E ok \in BOOLEAN :
         IF ok
         THEN offer_pc' = [offer_pc EXCEPT ![r] = "answered"] /\ UNCHANGED offer_resp
         ELSE OfferPanic(r)
    /\ UNCHANGED <<startupVars, trackVars, pumpVars, peer_connections, offer_req,
                   offer_map, cb_map, cb_registered, conn_state, close_calls, drains,
                   closed_notify, teardown_seen, removed_by, n_state_changes,
                   last_delete>>

\* SDPAnswer::into_response
SDPAnswerResponse(id) ==
    [status |-> CREATED, content_type |-> "application/sdp",
     location |-> <<"/resource/", id>>]

\* A handler whose insert reaches the map shared by all requests.
SetLocalDescriptionSharedInsert(r) ==
    /\ offer_pc[r] = "answered"
    /\ \E ok \in BOOLEAN :
         IF ok
         THEN /\ offer_pc' = [offer_pc EXCEPT ![r] = "done"]
              /\ peer_connections' = DashMapInsert(peer_connections, Uuid(r), r)
              /\ offer_resp' = [offer_resp EXCEPT ![r] = SDPAnswerResponse(Uuid(r))]
         ELSE /\ OfferPanic(r)
              /\ UNCHANGED peer_connections
    /\ UNCHANGED <<startupVars, trackVars, pumpVars, offer_map, offer_req,
                   cb_map, cb_registered, conn_state, close_calls, drains,
                   closed_notify, teardown_seen, removed_by, n_state_changes,
                   last_delete>>

\* pc.set_local_description(answer).await.unwrap(); then, without another
\* await, peer_connections.insert(id, pc) on the handler's own map and the
\* response. The handler's AppState is dropped when it returns: offer_map
\* keeps what the map held at that point.
SetLocalDescription(r) ==
    /\ offer_pc[r] = "answered"
    /\ \E ok \in BOOLEAN :
         IF ok
         THEN /\ offer_pc' = [offer_pc EXCEPT ![r] = "done"]
              /\ offer_map' = [offer_map EXCEPT ![r] = DashMapInsert(@, Uuid(r), r)]
              /\ offer_resp' = [offer_resp EXCEPT ![r] = SDPAnswerResponse(Uuid(r))]
         ELSE /\ OfferPanic(r)
              /\ UNCHANGED offer_map
    /\ UNCHANGED <<startupVars, trackVars, pumpVars, peer_connections, offer_req,
                   cb_map, cb_registered, conn_state, close_calls, drains,
                   closed_notify, teardown_seen, removed_by, n_state_changes,
                   last_delete>>

\* ------------------------------------------------ the state-change callback

\* The closure clones its captured map again on every call and removes the id
\* from that copy: whether peer_connections.remove(&id) returns Some.
CallbackFinds(r) == DashMapRemove(DashMapClone(cb_map[r]), Uuid(r)).found

\* The session r exists for its clients: its offer was answered with 201.
SessionCreated(r) == offer_pc[r] = "done"

\* The peer-connection stack moves connection r into state st (or delivers the
\* Closed notification of an earlier close()) and calls the registered
\* closure with st. For a terminal state the closure removes the id from its
\* copy of the map and, if it was there, closes the connection; for any other
\* state it does nothing. The stack leaves "new" once set_local_description
\* has been called.
StateChange(r) ==
    /\ n_state_changes < MaxStateChanges
    /\ offer_pc[r] \in {"answered", "done"}
    /\ \E st \in NextConnStates(conn_state[r])
                 \cup (IF closed_notify[r] THEN {"closed"} ELSE {}) :
         LET terminal == cb_registered[r] /\ st \in TerminalStates
             found == terminal /\ CallbackFinds(r)
             \* close() on a connection that is closed already returns at once
             closes == found /\ conn_state[r] # "closed"
         IN
           /\ conn_state' = [conn_state EXCEPT ![r] = IF found THEN "closed" ELSE st]
           /\ close_calls' = [close_calls EXCEPT ![r] = IF found THEN @ + 1 ELSE @]
           /\ drains' = [drains EXCEPT ![r] = IF found THEN {} ELSE @]
           /\ closed_notify' = [closed_notify EXCEPT ![r] =
                  IF st = "closed" THEN FALSE ELSE (@ \/ closes)]
           /\ teardown_seen' = [teardown_seen EXCEPT ![r] =
                  @ \/ (terminal /\ SessionCreated(r))]
           /\ removed_by' = [removed_by EXCEPT ![r] =
                  IF found THEN @ \cup {"callback"} ELSE @]
    /\ n_state_changes' = n_state_changes + 1
    /\ UNCHANGED <<startupVars, trackVars, pumpVars, peer_connections, offer_pc,
                   offer_req, offer_resp, offer_map, cb_map, cb_registered,
                   last_delete>>

\* ------------------------------------------------------------ whep_delete

\* The sessions whose 201 response carried id.
SessionsNamed(id) == {r \in Offers : Uuid(r) = id /\ SessionCreated(r)}

\* A DELETE that closes every connection there is, whatever it was asked for.
WhepDeleteClosesAll(id) ==
    /\ main_pc = "serving"
    /\ last_delete' =
           [id |-> id,
            status |-> IF SlicePanics(id) THEN Panicked ELSE NOT_FOUND,
            found |-> FALSE,
            created |-> SessionsNamed(id) # {},
            live |-> \E r \in SessionsNamed(id) : removed_by[r] = {}]
    /\ conn_state' = [r \in Offers |->
           IF conn_state[r] = "none" THEN "none" ELSE "closed"]
    /\ close_calls' = [r \in Offers |->
           IF conn_state[r] = "none" THEN close_calls[r] ELSE close_calls[r] + 1]
    /\ drains' = [r \in Offers |-> {}]
    /\ UNCHANGED <<startupVars, trackVars, pumpVars, peer_connections, offer_pc,
                   offer_req, offer_resp, offer_map, cb_map, cb_registered,
                   closed_notify, teardown_seen, removed_by, n_state_changes>>

\* A DELETE that closes the connection of the session it names without
\* taking an entry out of any map.
WhepDeleteClosesNamed(id) ==
    /\ main_pc = "serving"
    /\ last_delete' =
           [id |-> id,
            status |-> IF SessionsNamed(id) # {} THEN NO_CONTENT
                       ELSE IF SlicePanics(id) THEN Panicked ELSE NOT_FOUND,
            found |-> SessionsNamed(id) # {},
            created |-> SessionsNamed(id) # {},
            live |-> \E r \in SessionsNamed(id) : removed_by[r] = {}]
    /\ conn_state' = [r \in Offers |->
           IF r \in SessionsNamed(id) THEN "closed" ELSE conn_state[r]]
    /\ close_calls' = [r \in Offers |->
           IF r \in SessionsNamed(id) THEN close_calls[r] + 1 ELSE close_calls[r]]
    /\ drains' = [r \in Offers |->
           IF r \in SessionsNamed(id) THEN {} ELSE drains[r]]
    /\ UNCHANGED <<startupVars, trackVars, pumpVars, peer_connections, offer_pc,
                   offer_req, offer_resp, offer_map, cb_map, cb_registered,
                   closed_notify, teardown_seen, removed_by, n_state_changes>>

\* A DELETE /whep/resource/{id} request. The State extractor hands the handler
\* a clone of the router's AppState; peer_connections.remove(&id) works on that
\* clone. Some: close the connection, 204. None: the warning slices &id[..8],
\* then 404.
WhepDelete(id) ==
    /\ main_pc = "serving"
    /\ LET res == DashMapRemove(DashMapClone(peer_connections), id)
           v == res.value
           closes == res.found /\ conn_state[v] # "closed"
       IN
         /\ last_delete' =
                [id |-> id,
                 status |-> IF res.found THEN NO_CONTENT
                            ELSE IF SlicePanics(id) THEN Panicked ELSE NOT_FOUND,
                 found |-> res.found,
                 created |-> SessionsNamed(id) # {},
                 live |-> \E r \in SessionsNamed(id) : removed_by[r] = {}]
         /\ conn_state' = [r \in Offers |->
                IF res.found /\ r = v THEN "closed" ELSE conn_state[r]]
         /\ close_calls' = [r \in Offers |->
                IF res.found /\ r = v THEN close_calls[r] + 1 ELSE close_calls[r]]
         /\ drains' = [r \in Offers |->
                IF res.found /\ r = v THEN {} ELSE drains[r]]
         /\ closed_notify' = [r \in Offers |->
                IF r = v THEN (closed_notify[r] \/ closes) ELSE closed_notify[r]]
         /\ removed_by' = [r \in Offers |->
                IF res.found /\ r = v THEN removed_by[r] \cup {"delete"} ELSE removed_by[r]]
    /\ UNCHANGED <<startupVars, trackVars, pumpVars, peer_connections, offer_pc,
                   offer_req, offer_resp, offer_map, cb_map, cb_registered,
                   teardown_seen, n_state_changes>>

\* ------------------------------------------------------ the specification

Next ==
    \/ \E r \in Offers : PostOffer(r)
    \/ \E r \in Offers : OfferExtract(r)
    \/ \E r \in Offers : NewPeerConnection(r)
    \/ \E r \in Offers : AddVideoTrack(r)
    \/ \E r \in Offers : AddAudioTrack(r)
    \/ \E r \in Offers : SetRemoteDescription(r)
    \/ \E r \in Offers : CreateAnswer(r)
    \/ \E r \in Offers : SetLocalDescription(r)
    \/ \E r \in Offers : StateChange(r)
    \/ \E id \in DeleteIds : WhepDelete(id)

Spec == Init /\ [][Next]_vars

NextPump ==
    \/ IngestRtp
    \/ IngestOther
    \/ IngestEnd
    \/ \E k \in Kinds : WriterRecv(k)
    \/ \E k \in Kinds : WriterWrite(k)
    \/ \E k \in Kinds : WriterRecvNone(k)

SpecPump == InitWithUpstream /\ [][NextPump]_vars

\* The pump on a short upstream, with the scheduling of the runtime: the read
\* loop and each writer task are tasks of their own, and a task that can take
\* a step is polled.
SpecPumpFair ==
    /\ InitWithShortUpstream
    /\ [][NextPump]_vars
    /\ WF_vars(IngestRtp \/ IngestOther \/ IngestEnd)
    /\ \A k \in Kinds :
          WF_vars(WriterRecv(k) \/ WriterWrite(k) \/ WriterRecvNone(k))

NextStartup ==
    \/ SelectStreams
    \/ SetupVideo
    \/ SetupAudio
    \/ Play
    \/ SpawnPump
    \/ Serve
    \/ \E r \in Offers : PostOffer(r)

SpecStartup == InitStartup /\ [][NextStartup]_vars

\* ------------------------------------------------ claims: session registry

\* The registry every request shares: the map in the router's AppState.
Registry == DOMAIN peer_connections

\* The sessions that were created and not removed since.
LiveSessions == {r \in Offers : SessionCreated(r) /\ removed_by[r] = {}}

\* C1: once a delete-by-id of a created session and the terminal-state
\* callback of that same session have both run, in either order, exactly one
\* of the two found the entry, and the entry is gone from the registry.
C1_ExactlyOneRemovalSucceeds ==
    \A r \in Offers :
        (/\ SessionCreated(r)
         /\ teardown_seen[r]
         /\ last_delete.id = Uuid(r)
         /\ last_delete.created)
        => (Cardinality(removed_by[r]) = 1 /\ Uuid(r) \notin Registry)

\* C2: a DELETE bearing the identifier of a session that was created and not
\* removed since returns 204 and closes that session's connection; 404 is
\* returned only for an identifier that names no such session.
C2_DeleteOfLiveSessionReturns204 ==
    last_delete.status # NoStatus =>
        /\ last_delete.live =>
              /\ last_delete.status = NO_CONTENT
              /\ \A r \in SessionsNamed(last_delete.id) :
                    close_calls[r] >= 1 /\ Uuid(r) \notin Registry
        /\ last_delete.status = NOT_FOUND => ~last_delete.live

\* C3: after a POST was answered with 201, and as long as the session was not
\* torn down, the shared registry holds the session under the identifier of
\* the response's Location header.
C3_CreatedSessionIsRegistered ==
    \A r \in Offers :
        (offer_resp[r].status = CREATED /\ removed_by[r] = {})
        => /\ offer_resp[r].location[2] \in Registry
           /\ peer_connections[offer_resp[r].location[2]] = r

\* C4: the identifiers in the registry are exactly those of the sessions whose
\* offer handling completed and that were not removed since, so the registry
\* size is their number.
C4_RegistryIsLiveSessions ==
    /\ Registry = {Uuid(r) : r \in LiveSessions}
    /\ DashMapLen(peer_connections) = Cardinality(LiveSessions)

\* C5: a transition of a registered session's connection into disconnected,
\* failed or closed leaves the session's entry absent and the connection
\* closed by the callback; a transition into new, connecting or connected
\* changes no registry entry and closes nothing.
C5_TerminalTransitionTearsDown ==
    [][\A r \in Offers :
          (conn_state'[r] # conn_state[r] /\ SessionCreated(r) /\ removed_by[r] = {})
          => IF conn_state'[r] \in TerminalStates
             THEN /\ Uuid(r) \notin DOMAIN peer_connections'
                  /\ close_calls'[r] >= 1
                  /\ conn_state'[r] = "closed"
             ELSE /\ peer_connections' = peer_connections
                  /\ close_calls' = close_calls]_vars

\* C6: a DELETE of an identifier that is not in the registry, whatever its
\* length, ends with 404 and never with a panic.
C6_UnknownIdIsNotFound ==
    (last_delete.status # NoStatus /\ ~last_delete.found)
    => last_delete.status = NOT_FOUND

\* C7: a DELETE of an identifier that was never created or was removed already
\* returns 404, changes no registry entry and closes no connection.
C7_DeleteOfAbsentIdChangesNothing ==
    [][(last_delete' # last_delete /\ ~last_delete'.live)
       => /\ last_delete'.status = NOT_FOUND
          /\ peer_connections' = peer_connections
          /\ close_calls' = close_calls
          /\ conn_state' = conn_state]_vars

\* ------------------------------------------------ claims: SDPOffer extractor

\* The part of a content-type before any ";", without the surrounding blanks,
\* is application/sdp.
C8_IsSdp(ct) ==
    \E i \in 1..Len(ct) :
        /\ ct[i] = "application/sdp"
        /\ \A j \in 1..(i - 1) : ct[j] = " "
        /\ \A j \in (i + 1)..Len(ct) :
              ct[j] # " " => \E k \in (i + 1)..j : ct[k] = ";"

\* C8: a POST whose media type is not application/sdp, or without a
\* content-type, is answered with 415 whatever its body; one with
\* application/sdp and a malformed body is answered with 400. Neither creates a
\* connection, attaches a track or changes the registry, then or later.
C8_RejectedBeforeHandler ==
    /\ [](\A r \in Offers :
            offer_pc[r] = "rejected"
            => /\ conn_state[r] = "none"
               /\ drains[r] = {}
               /\ ~cb_registered[r]
               /\ offer_map[r] = DashMapNew)
    /\ [][\A r \in Offers :
            (offer_pc[r] = "received" /\ offer_pc'[r] # "received")
            => LET ct == offer_req[r].ct
                   body == offer_req[r].body
                   rejected == /\ offer_pc'[r] = "rejected"
                               /\ peer_connections' = peer_connections
                               /\ conn_state' = conn_state
                               /\ drains' = drains
               IN
                 /\ ~C8_IsSdp(ct)
                    => offer_resp'[r].status = UNSUPPORTED_MEDIA_TYPE /\ rejected
                 /\ (C8_IsSdp(ct) /\ body # "valid")
                    => offer_resp'[r].status = BAD_REQUEST /\ rejected]_vars

\* One request was answered with 415 and another with 400.
C8_Witness ==
    \E r, q \in Offers :
        /\ offer_pc[r] = "rejected" /\ offer_resp[r].status = UNSUPPORTED_MEDIA_TYPE
        /\ offer_pc[q] = "rejected" /\ offer_resp[q].status = BAD_REQUEST

\* ---------------------------------------------------- claims: ingest pump

\* C9: while the upstream has an item to give, the read loop can always handle
\* it and move on to the next, whatever the channels hold and whatever the
\* writer tasks do.
C9_IngestNeverWaits ==
    (ingest_pc = "running" /\ upstream # << >>) => ENABLED (IngestRtp \/ IngestOther)

\* Both channels are full, neither writer has taken a packet, and the read loop
\* has just handled a packet and has more to read.
C9_Witness ==
    /\ Len(rx["video"]) = ChannelCapacity
    /\ Len(rx["audio"]) = ChannelCapacity
    /\ taken["video"] = 0 /\ taken["audio"] = 0
    /\ ingest_last.outcome = "audio_dropped"
    /\ ingest_pc = "running" /\ upstream # << >>

\* The kind whose channel the read loop sends an item to, "none" for the others.
C10_KindOf(it) ==
    IF it.item # "rtp" THEN "none"
    ELSE IF it.stream_id = video_track THEN "video"
    ELSE IF audio_track = <<it.stream_id>> THEN "audio"
    ELSE "none"

\* C10: no channel ever holds more than ChannelCapacity packets, and when a
\* packet arrives for a full channel that packet is dropped: the channel holds
\* what it held, in the same order, and the read loop goes on.
C10_FullChannelDropsNewest ==
    /\ [](\A k \in Kinds : Len(rx[k]) <= ChannelCapacity)
    /\ [][\A k \in Kinds :
            (/\ upstream # << >>
             /\ upstream' = Tail(upstream)
             /\ C10_KindOf(Head(upstream)) = k
             /\ Len(rx[k]) = ChannelCapacity)
            => /\ rx'[k] = rx[k]
               /\ ingest_last' = [of |-> Head(upstream), outcome |-> k \o "_dropped"]
               /\ ingest_pc' = "running"]_vars

\* The video channel is full, its writer has taken a packet before, and the
\* read loop has just dropped a video packet.
C10_Witness ==
    /\ Len(rx["video"]) = ChannelCapacity
    /\ taken["video"] = 1
    /\ ingest_last.outcome = "video_dropped"
    /\ ingest_last.of.seq > ChannelCapacity

\* ------------------------------------------------------ claims: track order

\* s from its i-th element on can be obtained from t from its j-th element on
\* by leaving elements out.
RECURSIVE C11_Embeds(_, _, _, _)
C11_Embeds(s, t, i, j) ==
    IF i > Len(s) THEN TRUE
    ELSE IF j > Len(t) THEN FALSE
    ELSE IF s[i] = t[j] THEN C11_Embeds(s, t, i + 1, j + 1)
    ELSE C11_Embeds(s, t, i, j + 1)

\* C11: for each kind, the packets written to the track are a subsequence of
\* the packets of that kind the read loop received, in the order received. The
\* received packets are all different (each is later in the stream than the
\* one before), so none is written twice.
C11_WrittenIsSubsequenceOfReceived ==
    \A k \in Kinds :
        /\ C11_Embeds(written[k], received[k], 1, 1)
        /\ \A i \in 1..(Len(received[k]) - 1) :
              received[k][i].seq < received[k][i + 1].seq

\* Two video packets were written with one between them lost to a write
\* error, and the read loop dropped a video packet at the full channel of the
\* running writer task.
C11_Witness ==
    /\ \E i, j \in 1..Len(received["video"]) :
          /\ j > i + 1
          /\ written["video"] = <<received["video"][i], received["video"][j]>>
    /\ writer_pc["video"] = "recv"
    /\ Len(rx["video"]) + taken["video"] < Len(received["video"])

\* ------------------------------------------------- claims: stream selection

\* A video stream whose encoding is in the video priority table.
C12_Qualifies(stream) ==
    stream.media = "video" /\ stream.encoding_name \in {"h265", "h264", "vp9", "vp8"}

\* The priority number of a listed video encoding.
C12_Rank(encoding_name) ==
    CASE encoding_name = "h265" -> 1
      [] encoding_name = "h264" -> 2
      [] encoding_name = "vp9" -> 3
      [] encoding_name = "vp8" -> 4

\* Width times height as the number hi * 2^15 + lo, written <<hi, lo>>; <<0, 0>>
\* without dimensions. Exact for dimensions up to 2^16.
C12_Area(stream) ==
    IF stream.pixel_dimensions = << >> THEN <<0, 0>>
    ELSE LET w == stream.pixel_dimensions[1]
             h == stream.pixel_dimensions[2]
             upper == (w \div 32768) * h
             lower == (w % 32768) * h
         IN <<upper + (lower \div 32768), lower % 32768>>

C12_AreaLess(a, b) == a[1] < b[1] \/ (a[1] = b[1] /\ a[2] < b[2])

\* C12: once a video stream is selected, it is a qualifying candidate, no
\* qualifying candidate has a greater pixel area, and none of the same area
\* has a lower priority number.
C12_SelectedVideoHasGreatestArea ==
    video_track # NoIndex =>
        LET selected == streams[video_track + 1]
            candidates == {i \in 1..Len(streams) : C12_Qualifies(streams[i])}
        IN
          /\ (video_track + 1) \in candidates
          /\ \A i \in candidates :
                /\ ~C12_AreaLess(C12_Area(selected), C12_Area(streams[i]))
                /\ C12_Area(streams[i]) = C12_Area(selected)
                   => C12_Rank(selected.encoding_name)
                      <= C12_Rank(streams[i].encoding_name)

\* C13: with no video stream of a listed encoding in the description, no
\* video is selected and main never gets past the selection: no stream is set
\* up, no pump or writer task is spawned, no request is accepted and no
\* connection is created.
C13_NoListedVideoNeverServes ==
    (\A i \in 1..Len(streams) : ~C12_Qualifies(streams[i]))
    => /\ video_track = NoIndex
       /\ audio_track = << >>
       /\ main_pc \in {"described", "exited"}
       /\ setup_calls = << >>
       /\ ingest_pc = "unspawned"
       /\ \A k \in Kinds : writer_pc[k] = "absent"
       /\ \A r \in Offers : offer_pc[r] = "idle" /\ conn_state[r] = "none"

\* main returned on a description that has a video stream of an unlisted
\* encoding and an audio stream of a listed one.
C13_Witness ==
    /\ main_pc = "exited"
    /\ \E i \in 1..Len(streams) : streams[i].media = "video"
    /\ \E i \in 1..Len(streams) :
          streams[i].media = "audio" /\ streams[i].encoding_name = "opus"

\* An audio stream whose encoding is in the audio priority table.
C14_QualifiesAudio(stream) ==
    stream.media = "audio" /\ stream.encoding_name \in {"opus", "pcmu", "pcma"}

\* C14: the selected video stream is a video stream of a listed video
\* encoding, the selected audio stream is an audio stream of a listed audio
\* encoding, and only selected streams are set up.
C14_OnlyListedStreamsSelected ==
    /\ video_track # NoIndex => C12_Qualifies(streams[video_track + 1])
    /\ audio_track # << >> => C14_QualifiesAudio(streams[audio_track[1] + 1])
    /\ \A n \in 1..Len(setup_calls) :
          setup_calls[n] = video_track \/ <<setup_calls[n]>> = audio_track

\* A video stream of an unlisted encoding has a greater area than the selected
\* one, and the only audio stream has an unlisted encoding and is not selected.
C14_Witness ==
    /\ video_track # NoIndex
    /\ audio_track = << >>
    /\ \E i \in 1..Len(streams) :
          /\ streams[i].media = "video"
          /\ ~C12_Qualifies(streams[i])
          /\ C12_AreaLess(C12_Area(streams[video_track + 1]), C12_Area(streams[i]))
    /\ \E i \in 1..Len(streams) :
          streams[i].media = "audio" /\ ~C14_QualifiesAudio(streams[i])

\* The priority number of a listed audio encoding.
C15_Rank(encoding_name) ==
    CASE encoding_name = "opus" -> 1
      [] encoding_name = "pcmu" -> 2
      [] encoding_name = "pcma" -> 3

\* C15: after the selection the audio track is a qualifying audio stream of
\* the lowest priority number, or absent when none qualifies; without an audio
\* track no audio stream is set up and there is no audio writer task; and main
\* returns early only for the lack of a video stream, never for the lack of an
\* audio stream.
C15_AudioByPriorityOrAbsent ==
    LET candidates == {i \in 1..Len(streams) : C14_QualifiesAudio(streams[i])} IN
      /\ video_track # NoIndex =>
            IF candidates = {} THEN audio_track = << >>
            ELSE /\ audio_track # << >>
                 /\ (audio_track[1] + 1) \in candidates
                 /\ \A i \in candidates :
                       C15_Rank(streams[audio_track[1] + 1].encoding_name)
                       <= C15_Rank(streams[i].encoding_name)
      /\ audio_track = << >> =>
            /\ \A n \in 1..Len(setup_calls) : setup_calls[n] = video_track
            /\ writer_pc["audio"] = "absent"
      /\ main_pc = "exited" => \A i \in 1..Len(streams) : ~C12_Qualifies(streams[i])

\* The server accepts requests with a video track only: the description had an
\* audio stream, none qualified, the video stream alone was set up and the pump
\* runs with the video writer alone.
C15_Witness ==
    /\ main_pc = "serving"
    /\ audio_track = << >>
    /\ \E i \in 1..Len(streams) : streams[i].media = "audio"
    /\ setup_calls = <<video_track>>
    /\ ingest_pc = "running"
    /\ writer_pc = [k \in Kinds |-> IF k = "video" THEN "recv" ELSE "absent"]

\* ------------------------------------------------- claims: session isolation

\* Nothing of session q changes in this step: its registry entries, its
\* connection, its drain tasks, its handler and its response.
C16_SessionUntouched(q) ==
    /\ (Uuid(q) \in DOMAIN peer_connections) = (Uuid(q) \in DOMAIN peer_connections')
    /\ offer_map'[q] = offer_map[q]
    /\ cb_map'[q] = cb_map[q]
    /\ conn_state'[q] = conn_state[q]
    /\ close_calls'[q] = close_calls[q]
    /\ closed_notify'[q] = closed_notify[q]
    /\ drains'[q] = drains[q]
    /\ offer_pc'[q] = offer_pc[q]
    /\ offer_resp'[q] = offer_resp[q]

\* Nothing of the pump changes in this step: the channels, the read loop and
\* the writer tasks.
C16_PumpUntouched ==
    /\ rx' = rx
    /\ ingest_pc' = ingest_pc
    /\ writer_pc' = writer_pc
    /\ writer_cur' = writer_cur

\* C16: a DELETE request bearing a session's identifier, a callback run for a
\* terminal state of a session's connection, and the rejection of a request
\* (415 or 400 for a POST, 404 for a DELETE) change nothing of any other
\* session and nothing of the pump.
C16_TeardownTouchesOneSession ==
    [][/\ last_delete' # last_delete
          => /\ \A q \in Offers : Uuid(q) # last_delete'.id => C16_SessionUntouched(q)
             /\ C16_PumpUntouched
       /\ \A r \in Offers :
             ((conn_state'[r] # conn_state[r] /\ conn_state'[r] \in TerminalStates)
              \/ (offer_pc'[r] # offer_pc[r] /\ offer_pc'[r] = "rejected"))
             => /\ \A q \in Offers \ {r} : C16_SessionUntouched(q)
                /\ C16_PumpUntouched]_vars

\* Session 1 saw a terminal-state callback and a DELETE of its identifier, and
\* session 2, created as well, still has its connection and its drain tasks.
C16_Witness ==
    \E r, q \in Offers :
        /\ r # q
        /\ SessionCreated(r) /\ SessionCreated(q)
        /\ teardown_seen[r]
        /\ last_delete.id = Uuid(r) /\ last_delete.created
        /\ conn_state[q] = "new"
        /\ close_calls[q] = 0
        /\ drains[q] # {}

\* ------------------------------------------------------ claims: dispatch

\* The read loop takes an RTP packet from the upstream in this step.
C17_ReadsRtp ==
    /\ upstream # << >>
    /\ upstream' = Tail(upstream)
    /\ Head(upstream).item = "rtp"

\* The packet p is appended to the channel of kind k in this step.
C17_Enqueued(k, p) == rx'[k] = Append(rx[k], p)

\* The stream index of p is the selected index of kind k.
C17_IndexOf(k, p) ==
    IF k = "video" THEN p.stream_id = video_track
    ELSE audio_track # << >> /\ p.stream_id = audio_track[1] /\ p.stream_id # video_track

\* The statement as given: a received RTP packet is enqueued on the channel of
\* a kind exactly when its stream index is the selected index of that kind.
C17_EnqueuedIffIndexMatches ==
    [][C17_ReadsRtp
       => LET p == Head(upstream) IN
            /\ \A k \in Kinds : C17_Enqueued(k, p) <=> C17_IndexOf(k, p)
            /\ (\A k \in Kinds : ~C17_IndexOf(k, p)) => rx' = rx
            /\ ingest_pc' = "running"]_vars

\* C17 (amended): a received RTP packet is enqueued on the channel of a kind
\* exactly when its stream index is the selected index of that kind and that
\* channel has room and its writer task has not ended; a packet whose index
\* matches but which finds the channel full or closed is dropped, and a packet
\* with any other index changes neither channel. In every case no other
\* channel changes and the loop goes on.
C17_RoutedByIndex ==
    [][C17_ReadsRtp
       => LET p == Head(upstream) IN
            /\ \A k \in Kinds :
                  /\ C17_Enqueued(k, p)
                     <=> /\ C17_IndexOf(k, p)
                         /\ Len(rx[k]) < ChannelCapacity
                         /\ writer_pc[k] # "done"
                  /\ ~C17_Enqueued(k, p) => rx'[k] = rx[k]
            /\ ingest_pc' = "running"]_vars

\* Without an audio track, a packet of the audio stream was just discarded as
\* unknown while video packets are queued and the loop runs on.
C17_Witness ==
    /\ audio_track = << >>
    /\ ingest_last.of.item = "rtp"
    /\ ingest_last.of.stream_id = AudioIndex
    /\ ingest_last.outcome = "unknown_stream"
    /\ rx["video"] # << >>
    /\ rx["audio"] = << >>
    /\ ingest_pc = "running"

\* --------------------------------------------------- claims: writer tasks

\* C18: a write that fails for another cause than a closed pipe leaves the
\* writer task at its recv with the channel as it was, where it takes the
\* next queued packet and writes it; a write that fails with a closed pipe
\* ends the task, which from then on takes and writes nothing.
C18_WriterSurvivesOtherErrors ==
    /\ [](\A k \in Kinds :
            /\ (/\ write_result[k] = "other_error"
                /\ writer_pc[k] = "recv"
                /\ rx[k] # << >>
                /\ taken["video"] + taken["audio"] < MaxWrites)
               => ENABLED WriterRecv(k)
            /\ writer_pc[k] = "write" => ENABLED WriterWrite(k)
            /\ write_result[k] = "closed_pipe" => writer_pc[k] = "done")
    /\ [][\A k \in Kinds :
            /\ (writer_pc[k] = "write" /\ writer_pc'[k] # "write"
                /\ write_result'[k] = "other_error")
               => /\ writer_pc'[k] = "recv"
                  /\ rx'[k] = rx[k]
                  /\ written'[k] = written[k]
            /\ writer_pc[k] = "done"
               => /\ writer_pc'[k] = "done"
                  /\ taken'[k] = taken[k]
                  /\ written'[k] = written[k]
                  /\ writer_cur'[k] = writer_cur[k]]_vars

\* The video writer failed to write its first packet and then took and wrote
\* its second; the audio writer ended on a closed pipe and more audio packets
\* arrived since.
C18_Witness ==
    /\ taken["video"] = 2
    /\ written["video"] = <<received["video"][2]>>
    /\ write_result["video"] = "ok"
    /\ write_result["audio"] = "closed_pipe"
    /\ writer_pc["audio"] = "done"
    /\ Len(received["audio"]) > taken["audio"]

\* --------------------------------------------------- claims: offer handling

\* The steps of whep_offer in the order of the statement, by the position the
\* handler has reached.
C19_Reached(r, step) ==
    CASE step = "created" ->
           offer_pc[r] \in {"created", "video_added", "registered", "remote_set",
                            "answered", "done"}
      [] step = "attached" ->
           offer_pc[r] \in {"registered", "remote_set", "answered", "done"}
      [] step = "remote_applied" -> offer_pc[r] \in {"remote_set", "answered", "done"}
      [] step = "answer_generated" -> offer_pc[r] \in {"answered", "done"}
      [] step = "answer_applied" -> offer_pc[r] = "done"

\* C19: before the connection is created there is no connection, no drain task
\* and no callback; the tracks are attached and the callback registered before
\* the remote offer is applied; a session identifier is in no map before the
\* local answer was applied; and once the response is returned the session is
\* in the registry, unless it was removed since.
C19_OfferStepsInOrder ==
    \A r \in Offers :
        /\ offer_pc[r] \in {"idle", "received", "rejected", "extracted"}
           => conn_state[r] = "none" /\ drains[r] = {} /\ ~cb_registered[r]
        /\ C19_Reached(r, "created") => conn_state[r] # "none"
        /\ C19_Reached(r, "attached") /\ close_calls[r] = 0 => "video" \in drains[r]
        /\ C19_Reached(r, "remote_applied") => cb_registered[r]
        /\ (Uuid(r) \in Registry \/ Uuid(r) \in DOMAIN offer_map[r])
           => C19_Reached(r, "answer_applied")
        /\ offer_resp[r].status = CREATED
           => /\ C19_Reached(r, "answer_applied")
              /\ Uuid(r) \in Registry \/ removed_by[r] # {}

\* The drain tasks whep_offer starts: one for the video sender and one for the
\* audio sender when there is an audio track.
C20_ExpectedDrains == {"video"} \cup (IF audio_track # << >> THEN {"audio"} ELSE {})

\* C20: once the tracks are attached the session has exactly one drain task
\* per sender; and once a created session saw a DELETE of its identifier or a
\* terminal-state callback, its connection is closed and its drain tasks have
\* ended.
C20_DrainsEndWithTeardown ==
    \A r \in Offers :
        /\ (C19_Reached(r, "attached") /\ close_calls[r] = 0)
           => drains[r] = C20_ExpectedDrains
        /\ (/\ SessionCreated(r)
            /\ teardown_seen[r] \/ (last_delete.id = Uuid(r) /\ last_delete.created))
           => /\ close_calls[r] >= 1
              /\ conn_state[r] = "closed"
              /\ drains[r] = {}

\* ------------------------------------------------ claims: end of the stream

\* C21: the read loop ends once the upstream has ended; from then on each
\* writer task ends too; a writer task that ended without a closed pipe has
\* emptied its channel after the senders were dropped, and when none of its
\* writes failed it wrote every packet received for its kind, in the order
\* received.
C21_UpstreamEndDrainsQueues ==
    /\ <>(ingest_pc = "done")
    /\ \A k \in Kinds :
          (ingest_pc = "done") ~> (writer_pc[k] \in {"done", "absent"})
    /\ [](\A k \in Kinds :
            (writer_pc[k] = "done" /\ write_result[k] # "closed_pipe")
            => /\ ingest_pc = "done"
               /\ rx[k] = << >>
               /\ writer_cur[k] = NoItem
               /\ Len(written[k]) = taken[k] => written[k] = received[k])

\* The upstream ended, and the video writer task wrote every video packet of
\* the stream, two at least, in order, and ended.
C21_Witness ==
    /\ ingest_pc = "done"
    /\ writer_pc["video"] = "done"
    /\ write_result["video"] = "ok"
    /\ Len(written["video"]) >= 2
    /\ written["video"] = received["video"]
    /\ writer_pc["audio"] \in {"done", "absent"}

\* C22: a connection that reaches a terminal state after its state-change
\* handler was registered and before the handler's insert is, from then on,
\* never held by the registry, whether or not a delete request is made: the
\* registry does not end up holding the terminated session.
C22_Window(r) ==
    /\ cb_registered[r]
    /\ offer_pc[r] \in {"registered", "remote_set", "answered"}
    /\ conn_state[r] \in TerminalStates

C22_EarlyTerminalNeverRegistered ==
    \A r \in Offers : [](C22_Window(r) => [](Uuid(r) \notin Registry))

C22_Witness ==
    \E r \in Offers :
        /\ C22_Window(r)
        /\ last_delete = NoDelete
        /\ Uuid(r) \notin Registry
        /\ ~CallbackFinds(r)

\* C23: whatever delete requests and state-change callbacks run for a session,
\* close is called on its connection at most once; and the step that delivers
\* the Closed notification of an earlier close calls close on no connection.
C23_CloseAtMostOnce ==
    /\ [](\A r \in Offers : close_calls[r] <= 1)
    /\ [][\A r \in Offers :
            (closed_notify[r] /\ ~closed_notify'[r]) => close_calls' = close_calls]_vars

C23_Witness ==
    \E r \in Offers :
        /\ SessionCreated(r)
        /\ teardown_seen[r]
        /\ conn_state[r] \in TerminalStates
        /\ last_delete.id = Uuid(r)
        /\ last_delete.created
        /\ close_calls[r] <= 1

\* ------------------------------------------------ claims: isolation of kinds

\* C24: when the read loop handles an RTP packet of one kind, the channel of
\* the other kind is left as it was, and whether the packet is enqueued
\* depends on its own channel and writer task only (room in the channel, task
\* not ended), whatever the state of the other kind; a packet whose writer
\* task has ended is discarded and logged as a drop; in every case the loop
\* keeps running, and a loop that has an item to read can always take its
\* step, also while a channel is full or a writer task has ended.
C24_KindsIsolated ==
    /\ []((/\ ingest_pc = "running"
           /\ upstream # << >>
           /\ \E k \in Kinds : Len(rx[k]) = ChannelCapacity \/ writer_pc[k] = "done")
          => ENABLED (IngestRtp \/ IngestOther))
    /\ [][C17_ReadsRtp
           => LET p == Head(upstream) IN
                \A k \in Kinds :
                    C17_IndexOf(k, p)
                    => /\ \A o \in Kinds \ {k} : rx'[o] = rx[o]
                       /\ C17_Enqueued(k, p)
                          <=> (Len(rx[k]) < ChannelCapacity /\ writer_pc[k] # "done")
                       /\ writer_pc[k] = "done"
                          => /\ rx'[k] = rx[k]
                             /\ ingest_last' = [of |-> p, outcome |-> k \o "_dropped"]
                       /\ ingest_pc' = "running"]_vars

\* The video writer task ended on a closed pipe, a video packet that came
\* later was discarded, and the audio packet just read was enqueued while the
\* loop runs on.
C24_Witness ==
    /\ writer_pc["video"] = "done"
    /\ write_result["video"] = "closed_pipe"
    /\ Len(received["video"]) > taken["video"] + Len(rx["video"])
    /\ ingest_last.outcome = "audio_sent"
    /\ rx["audio"] # << >>
    /\ rx["audio"][Len(rx["audio"])] = ingest_last.of
    /\ ingest_pc = "running"

\* ------------------------------------------- claims: failures in whep_offer

\* C25: a handler that ended without a 201 after it had created the connection
\* and attached the tracks did not panic, and its connection is registered, or
\* closed with its drain tasks ended.
C25_FailedOfferIsCleanedUp ==
    \A r \in Offers :
        (/\ conn_state[r] # "none"
         /\ cb_registered[r]
         /\ offer_resp[r].status \notin {NoStatus, CREATED})
        => /\ offer_resp[r].status # Panicked
           /\ \/ Uuid(r) \in Registry
              \/ conn_state[r] = "closed" /\ drains[r] = {}

====
